---- MODULE Spec2Model ----
(***************************************************************************)
(* The event reporting framework of curtin/reporter/events.py: the event   *)
(* model, the dispatch functions and the ReportEventStack context manager  *)
(* with its parent/child result rollup.                                    *)
(*                                                                         *)
(* Python is single-threaded here, so one call (a constructor, a dispatch  *)
(* function, the entry or the exit half of a with-statement) is one        *)
(* action.  What the call did (events handed to report_event, the          *)
(* publish_event calls made, the exception that left the call) is kept in  *)
(* the variable last, which describes the most recent call only.           *)
(*                                                                         *)
(* The specifications share the actions:                                   *)
(*   Spec          with-statements over stacks the run constructs;         *)
(*   SpecScope     the same, over stacks that differ in parent and         *)
(*                 reporting_enabled only;                                 *)
(*   SpecDispatch  the registry and the dispatch functions called directly;*)
(*   SpecRollup    the exit of a stack whose children mapping is drawn     *)
(*                 from the entries children can leave in it;              *)
(*   SpecNesting   scopes constructed inside one another;                  *)
(*   SpecAssign    attribute assignments around with-statements;           *)
(*   SpecClock     dispatch while time passes;                             *)
(*   SpecDict      the dict form of events;                                *)
(*   SpecFiles     one event serialised repeatedly while files change;     *)
(*   SpecSiblings  one parent and children whose names may coincide;       *)
(*   SpecBracket   properly nested with-statements and a handler that      *)
(*                 records the events it is given;                         *)
(*   SpecTree      the same under one root, with results set in the body;  *)
(*   SpecOrder     the normal exit of one stack, over every order of its   *)
(*                 children mapping;                                       *)
(*   SpecExit      the exit of a child whose body called sys.exit;         *)
(*   SpecEvents    with-statements and direct calls of the dispatch        *)
(*                 functions, over two registered handlers.                *)
(* The registry (instantiated_handler_registry) and the handlers are not   *)
(* part of events.py; the registry is modelled as a collection that keeps  *)
(* registration order, and the variable log is what one recording handler  *)
(* has been given.                                                         *)
(***************************************************************************)
EXTENDS Integers, Sequences, FiniteSets, TLC

\* ---------------------------------------------------------------- bounds
\* number of ReportEventStack objects a run constructs
MaxStacks == 2
\* number of entries of a children mapping drawn as an input
MaxChildren == 2
\* number of handlers in the registry
MaxHandlers == 2
\* number of ticks of the clock after the module was imported
MaxClock == 2
\* number of scopes nested in one another
MaxDepth == 3
\* number of paths in the post_files of an event
MaxFiles == 2

\* ------------------------------------------------------------- constants
FINISH_EVENT_TYPE == "finish"
START_EVENT_TYPE == "start"
DEFAULT_EVENT_ORIGIN == "curtin"

\* The default of ReportingEvent.__init__'s timestamp parameter.  Python
\* evaluates "timestamp=time.time()" once, when the def statement runs at
\* import; the clock is counted from that moment.
DefaultTimestamp == 0

\* Python's None, where a string is expected
None == "None"

\* status = _nameset(("SUCCESS", "WARN", "FAIL"))
status == {"SUCCESS", "WARN", "FAIL"}

\* ---------------------------------------------------- inputs of the calls
\* values a caller may pass where a status is expected: the three valid
\* ones and one that is not in status
ResultValues == status \cup {"BOGUS"}
Names == {"a", "b"}
ChildNames == {"a", "b", "c"}
Descriptions == {"desc"}
Messages == {None, "msg"}
HandlerNames == <<"A", "B", "C", "D">>
AllHandlers == {HandlerNames[i] : i \in 1..(MaxHandlers + 1)}
StackIds == 1..MaxStacks

\* The files that post_files name.  A file system says for every path what
\* the regular file there holds, NoFile if there is no regular file, or
\* Unreadable if there is a regular file that open() cannot read.
Paths == {"/p", "/q"}
Contents == {"a", "b"}
NoFile == "NoFile"
Unreadable == "Unreadable"
FileSystems == [Paths -> Contents \cup {NoFile, Unreadable}]
PostFiles == UNION { [1..k -> Paths] : k \in 0..MaxFiles }

\* exceptions: what the body of a with-statement unwinds with (NoExc: the
\* body returned), and what the reporting code itself raises
NoExc == [type |-> None, code |-> None]
BodyExceptions ==
    { [type |-> "Exception", code |-> None],
      [type |-> "SystemExit", code |-> "0"],
      [type |-> "SystemExit", code |-> "1"] }
\* SystemExit.code as sys.exit leaves it: None for sys.exit(), the argument
\* otherwise.  "0" and "1" are the integers, "False" the boolean and "'0'"
\* the one-character string.
ExitCodes == {None, "0", "1", "False", "'0'"}
SystemExits == { [type |-> "SystemExit", code |-> c] : c \in ExitCodes }
\* Python's "code == 0": True for the integer 0 and for False (a bool is an
\* int), False for None, for other integers and for every string.
EqualsZero(code) == code \in {"0", "False"}
ValueError == [type |-> "ValueError", code |-> None]
HandlerFault == [type |-> "HandlerFault", code |-> None]
IOError == [type |-> "IOError", code |-> None]

VARIABLES
    registered_items,  \* the handler registry: handler names, registration order
    stacks,            \* StackIds -> the fields of each ReportEventStack
    last,              \* the most recent call and what it did
    now,               \* the clock: what time.time() returns
    log                \* the events the recording handler has been given

vars == <<registered_items, stacks, last, now, log>>

\* ------------------------------------------------------------ event model
\* ReportingEvent.__init__.  A start event has no result attribute: its
\* result is None here and its post_files empty; cls is the class of the
\* object, which decides the as_dict that a call reaches.  No caller in
\* events.py passes origin or timestamp, so both are the defaults.
ReportingEvent(event_type, name, description) ==
    [cls |-> "ReportingEvent",
     event_type |-> event_type, name |-> name, description |-> description,
     origin |-> DEFAULT_EVENT_ORIGIN, timestamp |-> DefaultTimestamp,
     result |-> None, post_files |-> <<>>]

\* mutant of FinishReportingEvent: the result is not validated
FinishReportingEvent_Unchecked(name, description, result, post_files) ==
    [ok |-> TRUE,
     event |-> [ReportingEvent(FINISH_EVENT_TYPE, name, description)
                    EXCEPT !.cls = "FinishReportingEvent",
                           !.result = result, !.post_files = post_files]]

\* FinishReportingEvent.__init__: the fields are set first, the result is
\* validated last; ok = FALSE is the ValueError.  post_files is a sequence
\* of paths; the empty sequence stands for None as well, which __init__
\* replaces by the empty list.
FinishReportingEvent(name, description, result, post_files) ==
    [ok |-> result \in status,
     event |-> [ReportingEvent(FINISH_EVENT_TYPE, name, description)
                    EXCEPT !.cls = "FinishReportingEvent",
                           !.result = result, !.post_files = post_files]]

\* os.path.isfile(fname)
isfile(fs, fname) == fs[fname] # NoFile

\* base64.b64encode(...).decode() of the contents a file can hold
b64encode(content) ==
    CASE content = "a" -> "YQ=="
      [] content = "b" -> "Yg=="

\* open(fname, "rb") and fp.read(): ok is FALSE when open raises, which it
\* does for a path that is no file and for a file it cannot read
open_read(fs, fname) ==
    [ok |-> fs[fname] \in Contents, content |-> fs[fname]]

\* the entries of the list ret when every open succeeded
file_entries(files, fs) ==
    [i \in 1..Len(files) |->
        [path |-> files[i],
         content |-> IF ~isfile(fs, files[i]) THEN None
                     ELSE b64encode(open_read(fs, files[i]).content),
         encoding |-> "base64"]]

\* mutant of _collect_file_info: every path is opened, without asking
\* os.path.isfile first
_collect_file_info_NoIsfile(files, fs) ==
    IF files = <<>> THEN [raised |-> NoExc, value |-> None]
    ELSE IF \E i \in 1..Len(files) : ~open_read(fs, files[i]).ok
    THEN [raised |-> IOError, value |-> None]
    ELSE [raised |-> NoExc, value |-> file_entries(files, fs)]

\* _collect_file_info(files), with the files as they are during the call.
\* The loop has no effect but its return value, so it raises what the first
\* failing open raises and returns ret otherwise.
_collect_file_info(files, fs) ==
    IF files = <<>> THEN [raised |-> NoExc, value |-> None]
    ELSE IF \E i \in 1..Len(files) :
                isfile(fs, files[i]) /\ ~open_read(fs, files[i]).ok
    THEN [raised |-> IOError, value |-> None]
    ELSE [raised |-> NoExc, value |-> file_entries(files, fs)]

\* ReportingEvent.as_dict
ReportingEvent_as_dict(self) ==
    [name |-> self.name, description |-> self.description,
     event_type |-> self.event_type, origin |-> self.origin,
     timestamp |-> self.timestamp]

\* mutant of FinishReportingEvent.as_dict: the files key is set whether or
\* not there are post_files
FinishReportingEvent_as_dict_AlwaysFiles(self, fs) ==
    LET info == _collect_file_info(self.post_files, fs)
    IN  IF info.raised # NoExc THEN [raised |-> info.raised, data |-> None]
        ELSE [raised |-> NoExc,
              data |-> ReportingEvent_as_dict(self)
                         @@ [result |-> self.result, files |-> info.value]]

\* FinishReportingEvent.as_dict
FinishReportingEvent_as_dict(self, fs) ==
    LET data == ReportingEvent_as_dict(self) @@ [result |-> self.result]
        info == _collect_file_info(self.post_files, fs)
    IN  IF self.post_files = <<>> THEN [raised |-> NoExc, data |-> data]
        ELSE IF info.raised # NoExc
        THEN [raised |-> info.raised, data |-> None]
        ELSE [raised |-> NoExc, data |-> data @@ [files |-> info.value]]

\* event.as_dict(): the method of the object's class; raised is the
\* exception that leaves the call, data the dictionary returned
as_dict(self, fs) ==
    IF self.cls = "FinishReportingEvent"
    THEN FinishReportingEvent_as_dict(self, fs)
    ELSE [raised |-> NoExc, data |-> ReportingEvent_as_dict(self)]

\* ---------------------------------------------------------------- dispatch
\* The loop of report_event from the i-th registered handler on.  fault is
\* the position of the first handler whose publish_event raises (0: none
\* raises).  calls are the publish_event calls made, raised the exception
\* that leaves report_event.
RECURSIVE report_event_from(_, _, _, _)
report_event_from(items, event, fault, i) ==
    IF i > Len(items)
    THEN [calls |-> <<>>, raised |-> NoExc]
    ELSE LET call == [handler |-> items[i], event |-> event]
         IN  IF i = fault
             THEN [calls |-> <<call>>, raised |-> HandlerFault]
             ELSE LET rest == report_event_from(items, event, fault, i + 1)
                  IN  [calls |-> <<call>> \o rest.calls, raised |-> rest.raised]

\* mutant of report_event: the handlers are visited last registered first
report_event_Reversed(items, event, fault) ==
    LET rev == [i \in 1..Len(items) |-> items[Len(items) + 1 - i]]
        r == report_event_from(rev, event, fault, 1)
    IN  [dispatched |-> <<event>>, calls |-> r.calls, raised |-> r.raised]

\* mutant of report_event: a handler that raises is skipped over and the
\* remaining handlers are still called
report_event_Isolating(items, event, fault) ==
    [dispatched |-> <<event>>,
     calls |-> [i \in 1..Len(items) |-> [handler |-> items[i], event |-> event]],
     raised |-> NoExc]

\* report_event(event)
report_event(items, event, fault) ==
    LET r == report_event_from(items, event, fault, 1)
    IN  [dispatched |-> <<event>>, calls |-> r.calls, raised |-> r.raised]

\* report_start_event(event_name, event_description)
report_start_event(items, event_name, event_description, fault) ==
    report_event(items,
                 ReportingEvent(START_EVENT_TYPE, event_name, event_description),
                 fault)

\* mutant of report_finish_event: the event is dispatched whether or not
\* its result is valid
report_finish_event_Unvalidated(items, event_name, event_description, result, post_files, fault) ==
    report_event(items,
                 FinishReportingEvent(event_name, event_description, result,
                                      post_files).event,
                 fault)

\* report_finish_event(event_name, event_description, result, post_files)
report_finish_event(items, event_name, event_description, result, post_files, fault) ==
    LET c == FinishReportingEvent(event_name, event_description, result,
                                  post_files)
    IN  IF ~c.ok
        THEN [dispatched |-> <<>>, calls |-> <<>>, raised |-> ValueError]
        ELSE report_event(items, c.event, fault)

\* a call that dispatches nothing
NoDispatch == [dispatched |-> <<>>, calls |-> <<>>, raised |-> NoExc]

\* ------------------------------------------------------- ReportEventStack
\* mutant of the assignment d[key] = (value, msg): the pair is added and an
\* earlier pair under the key stays
DictSet_Appends(d, key, value, msg) ==
    Append(d, [name |-> key, value |-> value, msg |-> msg])

\* the children dict: entries [name, value, msg] in insertion order
\* d[key] = (value, msg): an existing key keeps its place
DictSet(d, key, value, msg) ==
    IF \E i \in 1..Len(d) : d[i].name = key
    THEN [i \in 1..Len(d) |->
             IF d[i].name = key
             THEN [name |-> key, value |-> value, msg |-> msg]
             ELSE d[i]]
    ELSE Append(d, [name |-> key, value |-> value, msg |-> msg])

\* d[key] as a pair, NoEntry standing for a KeyError
NoEntry == <<"KeyError", "KeyError">>
DictGet(d, key) ==
    LET at == {i \in 1..Len(d) : d[i].name = key}
    IN  IF at = {} THEN NoEntry
        ELSE LET i == CHOOSE i \in at : TRUE IN <<d[i].value, d[i].msg>>

\* a slot of stacks that holds no object yet
NoStack ==
    [name |-> None, description |-> None, _message |-> None, parent |-> 0,
     result_on_exception |-> None, _result |-> None,
     reporting_enabled |-> FALSE, fullname |-> None, children |-> <<>>,
     post_files |-> <<>>,
     state |-> "NONE", assigned |-> FALSE,
     message_given |-> None, message_ever |-> FALSE]

\* mutant of ReportEventStack.__init__: the fullname is built from the
\* parent's name, as the docstring has it, not from the parent's fullname
ReportEventStack_ParentName(name, description, message, parent, reporting_enabled, result_on_exception, post_files) ==
    [name |-> name,
     description |-> description,
     _message |-> message,
     parent |-> parent,
     result_on_exception |-> result_on_exception,
     _result |-> "SUCCESS",
     reporting_enabled |->
         IF reporting_enabled = None
         THEN IF parent # 0 THEN stacks[parent].reporting_enabled ELSE TRUE
         ELSE reporting_enabled = "True",
     fullname |->
         IF parent # 0 THEN stacks[parent].name \o "/" \o name ELSE name,
     children |-> <<>>,
     post_files |-> post_files,
     state |-> "PENDING",
     assigned |-> FALSE,
     message_given |-> message,
     message_ever |-> message # None]

\* mutant of ReportEventStack.__init__: a stack constructed without
\* reporting_enabled reports, whatever its parent does
ReportEventStack_NoInherit(name, description, message, parent, reporting_enabled, result_on_exception, post_files) ==
    [name |-> name,
     description |-> description,
     _message |-> message,
     parent |-> parent,
     result_on_exception |-> result_on_exception,
     _result |-> "SUCCESS",
     reporting_enabled |->
         IF reporting_enabled = None
         THEN TRUE
         ELSE reporting_enabled = "True",
     fullname |->
         IF parent # 0 THEN stacks[parent].fullname \o "/" \o name ELSE name,
     children |-> <<>>,
     post_files |-> post_files,
     state |-> "PENDING",
     assigned |-> FALSE,
     message_given |-> message,
     message_ever |-> message # None]

\* ReportEventStack.__init__; parent is 0 for None, reporting_enabled is
\* "None", "True" or "False".  The last four fields are not fields of the
\* object: state records where the with-statement using it stands, assigned
\* whether the caller has assigned .result since the stack was last entered,
\* message_given the message the caller gave last (to the constructor or by
\* assignment) and message_ever whether the caller ever gave one that is
\* not None.
ReportEventStack(name, description, message, parent, reporting_enabled, result_on_exception, post_files) ==
    [name |-> name,
     description |-> description,
     _message |-> message,
     parent |-> parent,
     result_on_exception |-> result_on_exception,
     _result |-> "SUCCESS",
     reporting_enabled |->
         IF reporting_enabled = None
         THEN IF parent # 0 THEN stacks[parent].reporting_enabled ELSE TRUE
         ELSE reporting_enabled = "True",
     fullname |->
         IF parent # 0 THEN stacks[parent].fullname \o "/" \o name ELSE name,
     children |-> <<>>,
     post_files |-> post_files,
     state |-> "PENDING",
     assigned |-> FALSE,
     message_given |-> message,
     message_ever |-> message # None]

\* mutant of the message property: no fallback to the description
message_NoFallback(self) ==
    self._message

\* the message property
message(self) ==
    IF self._message # None THEN self._message ELSE self.description

\* the inner loop of _childrens_finish_info: the value of the first entry
\* from position i on whose value is cand_result, "NotFound" if there is none
RECURSIVE scan_children(_, _, _)
scan_children(children, cand_result, i) ==
    IF i > Len(children) THEN "NotFound"
    ELSE IF children[i].value = cand_result THEN children[i].value
    ELSE scan_children(children, cand_result, i + 1)

\* mutant of _childrens_finish_info: one pass over the children, the first
\* entry that is FAIL or WARN gives the result
_childrens_finish_info_FirstFound(self) ==
    LET bad == {i \in 1..Len(self.children) :
                   self.children[i].value \in {"FAIL", "WARN"}}
    IN  IF bad # {}
        THEN <<self.children[CHOOSE i \in bad : \A j \in bad : i <= j].value,
               message(self)>>
        ELSE <<self._result, message(self)>>

\* mutant of _childrens_finish_info: the outcome is the most severe of the
\* children's results and the stack's own
_childrens_finish_info_WorstOf(self) ==
    LET fail == scan_children(self.children, "FAIL", 1)
        warn == scan_children(self.children, "WARN", 1)
    IN  IF fail # "NotFound" \/ self._result = "FAIL"
        THEN <<"FAIL", message(self)>>
        ELSE IF warn # "NotFound" THEN <<warn, message(self)>>
        ELSE <<self._result, message(self)>>

\* mutant of _childrens_finish_info: WARN is looked for before FAIL
_childrens_finish_info_WarnFirst(self) ==
    LET fail == scan_children(self.children, "FAIL", 1)
        warn == scan_children(self.children, "WARN", 1)
    IN  IF warn # "NotFound" THEN <<warn, message(self)>>
        ELSE IF fail # "NotFound" THEN <<fail, message(self)>>
        ELSE <<self._result, message(self)>>

\* mutant of _childrens_finish_info: only FAIL is looked for
_childrens_finish_info_FailOnly(self) ==
    LET fail == scan_children(self.children, "FAIL", 1)
    IN  IF fail # "NotFound" THEN <<fail, message(self)>>
        ELSE <<self._result, message(self)>>

\* mutant of _childrens_finish_info: without a FAIL or WARN child the stack
\* reports SUCCESS, whatever its own result
_childrens_finish_info_IgnoresOwn(self) ==
    LET fail == scan_children(self.children, "FAIL", 1)
        warn == scan_children(self.children, "WARN", 1)
    IN  IF fail # "NotFound" THEN <<fail, message(self)>>
        ELSE IF warn # "NotFound" THEN <<warn, message(self)>>
        ELSE <<"SUCCESS", message(self)>>

\* ReportEventStack._childrens_finish_info
_childrens_finish_info(self) ==
    LET fail == scan_children(self.children, "FAIL", 1)
        warn == scan_children(self.children, "WARN", 1)
    IN  IF fail # "NotFound" THEN <<fail, message(self)>>
        ELSE IF warn # "NotFound" THEN <<warn, message(self)>>
        ELSE <<self._result, message(self)>>

\* mutant of _finish_info: a FAIL recorded by a child outranks
\* result_on_exception
_finish_info_ChildFailFirst(self, exc) ==
    IF exc # NoExc /\ ~(exc.type = "SystemExit" /\ EqualsZero(exc.code))
    THEN IF scan_children(self.children, "FAIL", 1) # "NotFound"
         THEN <<"FAIL", message(self)>>
         ELSE <<self.result_on_exception, message(self)>>
    ELSE _childrens_finish_info(self)

\* mutant of _finish_info: SystemExit with code 0 is treated as any exception
_finish_info_AnyException(self, exc) ==
    IF exc # NoExc
    THEN <<self.result_on_exception, message(self)>>
    ELSE _childrens_finish_info(self)

\* mutant of _finish_info: a SystemExit whose code is false in a condition
\* (None, 0, False) is treated as a clean exit
_finish_info_FalsyIsClean(self, exc) ==
    IF exc # NoExc
       /\ ~(exc.type = "SystemExit" /\ exc.code \in {None, "0", "False"})
    THEN <<self.result_on_exception, message(self)>>
    ELSE _childrens_finish_info(self)

\* ReportEventStack._finish_info.  An exception object is true in the test
\* "if exc", so that test is exc # NoExc.
_finish_info(self, exc) ==
    IF exc # NoExc /\ ~(exc.type = "SystemExit" /\ EqualsZero(exc.code))
    THEN <<self.result_on_exception, message(self)>>
    ELSE _childrens_finish_info(self)

\* A handler that keeps every event it is given, in order; log is what it
\* holds.  The other handlers keep nothing.
Recorder == "R"
RECURSIVE Received(_)
Received(calls) ==
    IF calls = <<>> THEN <<>>
    ELSE (IF Head(calls).handler = Recorder THEN <<Head(calls).event>>
          ELSE <<>>) \o Received(Tail(calls))

\* ---------------------------------------------------------------- actions
\* last when the call raised nothing and dispatched nothing.  arg is the
\* argument of the call that the stack does not keep as passed: the
\* reporting_enabled argument of __init__, the value of an assignment; for
\* __enter__ it is the state the with-statement found the stack in, and
\* found the result the stack held then.  For __enter__ and __exit__ of a
\* stack with a parent, seen is parent.children[name] as it is when
\* report_start_event or report_finish_event would be called.  For
\* as_dict, event is the object, fs the files as they are during the call
\* and data the dictionary returned; again says that the call before
\* serialised the same object, and prev is then the fs and the outcome of
\* that call.
NoCall ==
    [op |-> "none", stack |-> 0, arg |-> None, exc |-> NoExc, fault |-> 0,
     raised |-> NoExc, result |-> None, msg |-> None, dispatched |-> <<>>,
     calls |-> <<>>, event |-> None, fs |-> None, data |-> None,
     again |-> FALSE, prev |-> None, found |-> None, seen |-> NoEntry]

\* An input of every call that dispatches: the position in the registry of
\* the first handler whose publish_event raises (0: none raises).  A call
\* that does not reach report_event has no such input.
Faults == 0..Len(registered_items)

\* time passes between two calls: time.time() returns a later value
Tick ==
    /\ now < DefaultTimestamp + MaxClock
    /\ now' = now + 1
    /\ last' = [NoCall EXCEPT !.op = "tick"]
    /\ UNCHANGED <<registered_items, stacks, log>>

\* event.as_dict() is called while the files are as fs says
AsDict(event, fs) ==
    /\ last' = [NoCall EXCEPT !.op = "as_dict", !.event = event, !.fs = fs,
                              !.raised = as_dict(event, fs).raised,
                              !.data = as_dict(event, fs).data]
    /\ UNCHANGED <<registered_items, stacks, now, log>>

\* mutant of as_dict called again: the dictionary of the first call is kept
AsDictAgain_Cached(fs) ==
    /\ last.op = "as_dict"
    /\ last' = [NoCall EXCEPT !.op = "as_dict", !.event = last.event,
                              !.fs = fs, !.again = TRUE,
                              !.raised = last.raised,
                              !.data = last.data,
                              !.prev = [fs |-> last.fs,
                                        raised |-> last.raised,
                                        data |-> last.data]]
    /\ UNCHANGED <<registered_items, stacks, now, log>>

\* event.as_dict() once more, on the object of the call before; the files
\* may have changed since
AsDictAgain(fs) ==
    /\ last.op = "as_dict"
    /\ last' = [NoCall EXCEPT !.op = "as_dict", !.event = last.event,
                              !.fs = fs, !.again = TRUE,
                              !.raised = as_dict(last.event, fs).raised,
                              !.data = as_dict(last.event, fs).data,
                              !.prev = [fs |-> last.fs,
                                        raised |-> last.raised,
                                        data |-> last.data]]
    /\ UNCHANGED <<registered_items, stacks, now, log>>

\* registry.register_item(name, handler)
register_item(h) ==
    /\ Len(registered_items) < MaxHandlers
    /\ \A i \in 1..Len(registered_items) : registered_items[i] # h
    /\ registered_items' = Append(registered_items, h)
    /\ last' = [NoCall EXCEPT !.op = "register_item"]
    /\ UNCHANGED <<stacks, now, log>>

\* registry.unregister_item(name)
unregister_item(h) ==
    /\ \E i \in 1..Len(registered_items) : registered_items[i] = h
    /\ registered_items' = SelectSeq(registered_items, LAMBDA x : x # h)
    /\ last' = [NoCall EXCEPT !.op = "unregister_item"]
    /\ UNCHANGED <<stacks, now, log>>

\* a caller calls report_start_event(name, description)
ReportStartEvent(name, description, fault) ==
    LET d == report_start_event(registered_items, name, description, fault)
    IN  /\ last' = [NoCall EXCEPT !.op = "report_start_event",
                                  !.fault = fault,
                                  !.dispatched = d.dispatched,
                                  !.calls = d.calls, !.raised = d.raised]
        /\ log' = log \o Received(d.calls)
        /\ UNCHANGED <<registered_items, stacks, now>>

\* a caller calls report_finish_event(name, description, result)
ReportFinishEvent(name, description, result, fault) ==
    LET d == report_finish_event(registered_items, name, description, result,
                                 <<>>, fault)
    IN  /\ fault # 0 => result \in status
        /\ last' = [NoCall EXCEPT !.op = "report_finish_event",
                                  !.fault = fault,
                                  !.result = result, !.msg = description,
                                  !.dispatched = d.dispatched,
                                  !.calls = d.calls, !.raised = d.raised]
        /\ log' = log \o Received(d.calls)
        /\ UNCHANGED <<registered_items, stacks, now>>

\* a caller constructs a ReportEventStack; it takes the first free slot
Construct(s, name, description, msg, parent, reporting_enabled, result_on_exception, post_files) ==
    /\ stacks[s].state = "NONE"
    /\ \A t \in 1..(s - 1) : stacks[t].state # "NONE"
    /\ parent \in 0..(s - 1)
    /\ stacks' = [stacks EXCEPT ![s] =
                     ReportEventStack(name, description, msg, parent,
                                      reporting_enabled, result_on_exception,
                                      post_files)]
    /\ last' = [NoCall EXCEPT !.op = "__init__", !.stack = s,
                              !.arg = reporting_enabled]
    /\ UNCHANGED <<registered_items, now, log>>

\* mutant of the result setter: the value is stored without validation
SetResult_Unchecked(s, value) ==
    /\ stacks[s].state # "NONE"
    /\ stacks' = [stacks EXCEPT ![s]._result = value, ![s].assigned = TRUE]
    /\ last' = [NoCall EXCEPT !.op = "result", !.stack = s, !.arg = value]
    /\ UNCHANGED <<registered_items, now, log>>

\* the result setter: stack.result = value
SetResult(s, value) ==
    /\ stacks[s].state # "NONE"
    /\ IF value \in status
       THEN /\ stacks' = [stacks EXCEPT ![s]._result = value,
                                        ![s].assigned = TRUE]
            /\ last' = [NoCall EXCEPT !.op = "result", !.stack = s,
                                      !.arg = value]
       ELSE /\ stacks' = stacks
            /\ last' = [NoCall EXCEPT !.op = "result", !.stack = s,
                                      !.arg = value, !.raised = ValueError]
    /\ UNCHANGED <<registered_items, now, log>>

\* mutant of the name assignment: the fullname is computed from the names,
\* so renaming a stack renames it and its children in the events
SetName_Cascading(s, value) ==
    /\ stacks[s].state # "NONE"
    /\ stacks' = [t \in DOMAIN stacks |->
                     IF t = s
                     THEN [stacks[t] EXCEPT !.name = value]
                     ELSE IF stacks[t].parent = s
                     THEN [stacks[t] EXCEPT
                              !.fullname = value \o "/" \o stacks[t].name]
                     ELSE stacks[t]]
    /\ last' = [NoCall EXCEPT !.op = "set_name", !.stack = s, !.arg = value]
    /\ UNCHANGED <<registered_items, now, log>>

\* stack.name = value: a plain attribute
SetName(s, value) ==
    /\ stacks[s].state # "NONE"
    /\ stacks' = [stacks EXCEPT ![s].name = value]
    /\ last' = [NoCall EXCEPT !.op = "set_name", !.stack = s, !.arg = value]
    /\ UNCHANGED <<registered_items, now, log>>

\* stack.fullname = value: a plain attribute
SetFullname(s, value) ==
    /\ stacks[s].state # "NONE"
    /\ stacks' = [stacks EXCEPT ![s].fullname = value]
    /\ last' = [NoCall EXCEPT !.op = "set_fullname", !.stack = s,
                              !.arg = value]
    /\ UNCHANGED <<registered_items, now, log>>

\* stack.description = value: a plain attribute
SetDescription(s, value) ==
    /\ stacks[s].state # "NONE"
    /\ stacks' = [stacks EXCEPT ![s].description = value]
    /\ last' = [NoCall EXCEPT !.op = "set_description", !.stack = s,
                              !.arg = value]
    /\ UNCHANGED <<registered_items, now, log>>

\* the message setter: stack.message = value
SetMessage(s, value) ==
    /\ stacks[s].state # "NONE"
    /\ stacks' = [stacks EXCEPT ![s]._message = value,
                                ![s].message_given = value,
                                ![s].message_ever = @ \/ value # None]
    /\ last' = [NoCall EXCEPT !.op = "set_message", !.stack = s,
                              !.arg = value]
    /\ UNCHANGED <<registered_items, now, log>>

\* the caller reads stack.message
GetMessage(s) ==
    /\ stacks[s].state # "NONE"
    /\ last' = [NoCall EXCEPT !.op = "get_message", !.stack = s,
                              !.msg = message(stacks[s])]
    /\ UNCHANGED <<registered_items, stacks, now, log>>

\* mutant of __enter__: the start event is dispatched whether or not
\* reporting is enabled
__enter___AlwaysReports(s, fault) ==
    /\ stacks[s].state \in {"PENDING", "DONE"}
    /\ LET self == stacks[s]
           d == report_start_event(registered_items, self.fullname,
                                   self.description, fault)
           reset == [stacks EXCEPT ![s]._result = "SUCCESS",
                                   ![s].assigned = FALSE]
       IN  /\ stacks' =
                 IF d.raised # NoExc THEN reset
                 ELSE LET placed ==
                              IF self.parent # 0
                              THEN [reset EXCEPT ![self.parent].children =
                                        DictSet(@, self.name, None, None)]
                              ELSE reset
                      IN  [placed EXCEPT ![s].state = "ACTIVE"]
           /\ last' = [NoCall EXCEPT !.op = "__enter__", !.stack = s,
                                     !.arg = self.state, !.fault = fault,
                                     !.found = self._result,
                                     !.seen = IF self.parent = 0 THEN NoEntry
                                              ELSE DictGet(stacks[self.parent].children, self.name),
                                     !.dispatched = d.dispatched,
                                     !.calls = d.calls, !.raised = d.raised]
           /\ log' = log \o Received(d.calls)
    /\ UNCHANGED <<registered_items, now>>

\* mutant of __enter__: the result a stack was left with is not reset when
\* it is entered
__enter___NoReset(s, fault) ==
    /\ stacks[s].state \in {"PENDING", "DONE"}
    /\ LET self == stacks[s]
           d == IF self.reporting_enabled
                THEN report_start_event(registered_items, self.fullname,
                                        self.description, fault)
                ELSE NoDispatch
           reset == stacks
       IN  /\ fault # 0 => self.reporting_enabled
           /\ stacks' =
                 IF d.raised # NoExc THEN reset
                 ELSE LET placed ==
                              IF self.parent # 0
                              THEN [reset EXCEPT ![self.parent].children =
                                        DictSet(@, self.name, None, None)]
                              ELSE reset
                      IN  [placed EXCEPT ![s].state = "ACTIVE"]
           /\ last' = [NoCall EXCEPT !.op = "__enter__", !.stack = s,
                                     !.arg = self.state, !.fault = fault,
                                     !.found = self._result,
                                     !.seen = IF self.parent = 0 THEN NoEntry
                                              ELSE DictGet(stacks[self.parent].children, self.name),
                                     !.dispatched = d.dispatched,
                                     !.calls = d.calls, !.raised = d.raised]
           /\ log' = log \o Received(d.calls)
    /\ UNCHANGED <<registered_items, now>>

\* mutant of __enter__: self.result keeps the value it was given before the
\* with-statement
__enter___KeepsResult(s, fault) ==
    /\ stacks[s].state \in {"PENDING", "DONE"}
    /\ LET self == stacks[s]
           d == IF self.reporting_enabled
                THEN report_start_event(registered_items, self.fullname,
                                        self.description, fault)
                ELSE NoDispatch
           reset == [stacks EXCEPT ![s].assigned = FALSE]
       IN  /\ fault # 0 => self.reporting_enabled
           /\ stacks' =
                 IF d.raised # NoExc THEN reset
                 ELSE LET placed ==
                              IF self.parent # 0
                              THEN [reset EXCEPT ![self.parent].children =
                                        DictSet(@, self.name, None, None)]
                              ELSE reset
                      IN  [placed EXCEPT ![s].state = "ACTIVE"]
           /\ last' = [NoCall EXCEPT !.op = "__enter__", !.stack = s,
                                     !.arg = self.state, !.fault = fault,
                                     !.found = self._result,
                                     !.seen = IF self.parent = 0 THEN NoEntry
                                              ELSE DictGet(stacks[self.parent].children, self.name),
                                     !.dispatched = d.dispatched,
                                     !.calls = d.calls, !.raised = d.raised]
           /\ log' = log \o Received(d.calls)
    /\ UNCHANGED <<registered_items, now>>

\* mutant of __enter__: nothing is registered in the parent
__enter___NoPlaceholder(s, fault) ==
    /\ stacks[s].state \in {"PENDING", "DONE"}
    /\ LET self == stacks[s]
           d == IF self.reporting_enabled
                THEN report_start_event(registered_items, self.fullname,
                                        self.description, fault)
                ELSE NoDispatch
           reset == [stacks EXCEPT ![s]._result = "SUCCESS",
                                   ![s].assigned = FALSE]
       IN  /\ fault # 0 => self.reporting_enabled
           /\ stacks' =
                 IF d.raised # NoExc THEN reset
                 ELSE [reset EXCEPT ![s].state = "ACTIVE"]
           /\ last' = [NoCall EXCEPT !.op = "__enter__", !.stack = s,
                                     !.arg = self.state, !.fault = fault,
                                     !.found = self._result,
                                     !.seen = IF self.parent = 0 THEN NoEntry
                                              ELSE DictGet(stacks[self.parent].children, self.name),
                                     !.dispatched = d.dispatched,
                                     !.calls = d.calls, !.raised = d.raised]
           /\ log' = log \o Received(d.calls)
    /\ UNCHANGED <<registered_items, now>>

\* mutant of __enter__: the placeholder is registered before the start
\* event is dispatched
__enter___PlaceholderFirst(s, fault) ==
    /\ stacks[s].state \in {"PENDING", "DONE"}
    /\ LET self == stacks[s]
           d == IF self.reporting_enabled
                THEN report_start_event(registered_items, self.fullname,
                                        self.description, fault)
                ELSE NoDispatch
           reset == [stacks EXCEPT ![s]._result = "SUCCESS",
                                   ![s].assigned = FALSE]
       IN  /\ fault # 0 => self.reporting_enabled
           /\ stacks' =
                 LET placed ==
                         IF self.parent # 0
                         THEN [reset EXCEPT ![self.parent].children =
                                   DictSet(@, self.name, None, None)]
                         ELSE reset
                 IN  IF d.raised # NoExc THEN placed
                     ELSE [placed EXCEPT ![s].state = "ACTIVE"]
           /\ last' = [NoCall EXCEPT !.op = "__enter__", !.stack = s,
                                     !.arg = self.state, !.fault = fault,
                                     !.found = self._result,
                                     !.seen = IF self.parent = 0 THEN NoEntry
                                              ELSE <<None, None>>,
                                     !.dispatched = d.dispatched,
                                     !.calls = d.calls, !.raised = d.raised]
           /\ log' = log \o Received(d.calls)
    /\ UNCHANGED <<registered_items, now>>

\* mutant of __enter__: only a stack without a parent dispatches a start
\* event
__enter___SilentChild(s, fault) ==
    /\ stacks[s].state \in {"PENDING", "DONE"}
    /\ LET self == stacks[s]
           d == IF self.reporting_enabled /\ self.parent = 0
                THEN report_start_event(registered_items, self.fullname,
                                        self.description, fault)
                ELSE NoDispatch
           reset == [stacks EXCEPT ![s]._result = "SUCCESS",
                                   ![s].assigned = FALSE]
       IN  /\ fault # 0 => self.reporting_enabled
           /\ stacks' =
                 IF d.raised # NoExc THEN reset
                 ELSE LET placed ==
                              IF self.parent # 0
                              THEN [reset EXCEPT ![self.parent].children =
                                        DictSet(@, self.name, None, None)]
                              ELSE reset
                      IN  [placed EXCEPT ![s].state = "ACTIVE"]
           /\ last' = [NoCall EXCEPT !.op = "__enter__", !.stack = s,
                                     !.arg = self.state, !.fault = fault,
                                     !.found = self._result,
                                     !.seen = IF self.parent = 0 THEN NoEntry
                                              ELSE DictGet(stacks[self.parent].children, self.name),
                                     !.dispatched = d.dispatched,
                                     !.calls = d.calls, !.raised = d.raised]
           /\ log' = log \o Received(d.calls)
    /\ UNCHANGED <<registered_items, now>>

\* mutant of __enter__: entry starts the stack with an empty children
\* mapping
__enter___ClearsChildren(s, fault) ==
    /\ stacks[s].state \in {"PENDING", "DONE"}
    /\ LET self == stacks[s]
           d == IF self.reporting_enabled
                THEN report_start_event(registered_items, self.fullname,
                                        self.description, fault)
                ELSE NoDispatch
           reset == [stacks EXCEPT ![s]._result = "SUCCESS",
                                   ![s].assigned = FALSE,
                                   ![s].children = <<>>]
       IN  /\ fault # 0 => self.reporting_enabled
           /\ stacks' =
                 IF d.raised # NoExc THEN reset
                 ELSE LET placed ==
                              IF self.parent # 0
                              THEN [reset EXCEPT ![self.parent].children =
                                        DictSet(@, self.name, None, None)]
                              ELSE reset
                      IN  [placed EXCEPT ![s].state = "ACTIVE"]
           /\ last' = [NoCall EXCEPT !.op = "__enter__", !.stack = s,
                                     !.arg = self.state, !.fault = fault,
                                     !.found = self._result,
                                     !.seen = IF self.parent = 0 THEN NoEntry
                                              ELSE DictGet(stacks[self.parent].children, self.name),
                                     !.dispatched = d.dispatched,
                                     !.calls = d.calls, !.raised = d.raised]
           /\ log' = log \o Received(d.calls)
    /\ UNCHANGED <<registered_items, now>>

\* ReportEventStack.__enter__, as a with-statement calls it.  When the start
\* dispatch raises, __enter__ is left at once and the body does not run.
__enter__(s, fault) ==
    /\ stacks[s].state \in {"PENDING", "DONE"}
    /\ LET self == stacks[s]
           d == IF self.reporting_enabled
                THEN report_start_event(registered_items, self.fullname,
                                        self.description, fault)
                ELSE NoDispatch
           reset == [stacks EXCEPT ![s]._result = "SUCCESS",
                                   ![s].assigned = FALSE]
       IN  /\ fault # 0 => self.reporting_enabled
           /\ stacks' =
                 IF d.raised # NoExc THEN reset
                 ELSE LET placed ==
                              IF self.parent # 0
                              THEN [reset EXCEPT ![self.parent].children =
                                        DictSet(@, self.name, None, None)]
                              ELSE reset
                      IN  [placed EXCEPT ![s].state = "ACTIVE"]
           /\ last' = [NoCall EXCEPT !.op = "__enter__", !.stack = s,
                                     !.arg = self.state, !.fault = fault,
                                     !.found = self._result,
                                     !.seen = IF self.parent = 0 THEN NoEntry
                                              ELSE DictGet(stacks[self.parent].children, self.name),
                                     !.dispatched = d.dispatched,
                                     !.calls = d.calls, !.raised = d.raised]
           /\ log' = log \o Received(d.calls)
    /\ UNCHANGED <<registered_items, now>>

\* mutant of __exit__: the finish event is dispatched before the outcome is
\* written to the parent
__exit___DispatchFirst(s, exc, fault) ==
    /\ stacks[s].state = "ACTIVE"
    /\ LET self == stacks[s]
           info == _finish_info(self, exc)
           result == info[1]
           msg == info[2]
           written == IF self.parent # 0
                      THEN [stacks EXCEPT ![self.parent].children =
                               DictSet(@, self.name, result, msg)]
                      ELSE stacks
           d == IF self.reporting_enabled
                THEN report_finish_event(registered_items, self.fullname, msg,
                                         result, self.post_files, fault)
                ELSE NoDispatch
       IN  /\ fault # 0 => (self.reporting_enabled /\ result \in status)
           /\ stacks' = IF d.raised # NoExc
                        THEN [stacks EXCEPT ![s].state = "DONE"]
                        ELSE [written EXCEPT ![s].state = "DONE"]
           /\ last' = [NoCall EXCEPT
                       !.op = "__exit__", !.stack = s, !.exc = exc,
                       !.fault = fault,
                       !.seen = IF self.parent = 0 THEN NoEntry
                                ELSE DictGet(stacks[self.parent].children, self.name),
                       !.raised = IF d.raised # NoExc THEN d.raised ELSE exc,
                       !.result = result, !.msg = msg,
                       !.dispatched = d.dispatched, !.calls = d.calls]
           /\ log' = log \o Received(d.calls)
    /\ UNCHANGED <<registered_items, now>>

\* mutant of __exit__: the outcome is not written to the parent
__exit___NoWriteBack(s, exc, fault) ==
    /\ stacks[s].state = "ACTIVE"
    /\ LET self == stacks[s]
           info == _finish_info(self, exc)
           result == info[1]
           msg == info[2]
           written == stacks
           d == IF self.reporting_enabled
                THEN report_finish_event(registered_items, self.fullname, msg,
                                         result, self.post_files, fault)
                ELSE NoDispatch
       IN  /\ fault # 0 => (self.reporting_enabled /\ result \in status)
           /\ stacks' = [written EXCEPT ![s].state = "DONE"]
           /\ last' = [NoCall EXCEPT
                       !.op = "__exit__", !.stack = s, !.exc = exc,
                       !.fault = fault,
                       !.seen = IF self.parent = 0 THEN NoEntry
                                ELSE DictGet(written[self.parent].children, self.name),
                       !.raised = IF d.raised # NoExc THEN d.raised ELSE exc,
                       !.result = result, !.msg = msg,
                       !.dispatched = d.dispatched, !.calls = d.calls]
           /\ log' = log \o Received(d.calls)
    /\ UNCHANGED <<registered_items, now>>

\* t is the parent of s, or the parent of its parent, and so on
RECURSIVE IsAncestorOf(_, _)
IsAncestorOf(t, s) ==
    /\ stacks[s].parent # 0
    /\ (stacks[s].parent = t \/ IsAncestorOf(t, stacks[s].parent))

\* mutant of __exit__: the outcome is written to every ancestor
__exit___WritesAncestors(s, exc, fault) ==
    /\ stacks[s].state = "ACTIVE"
    /\ LET self == stacks[s]
           info == _finish_info(self, exc)
           result == info[1]
           msg == info[2]
           written == [t \in DOMAIN stacks |->
                          IF IsAncestorOf(t, s)
                          THEN [stacks[t] EXCEPT !.children =
                                   DictSet(@, self.name, result, msg)]
                          ELSE stacks[t]]
           d == IF self.reporting_enabled
                THEN report_finish_event(registered_items, self.fullname, msg,
                                         result, self.post_files, fault)
                ELSE NoDispatch
       IN  /\ fault # 0 => (self.reporting_enabled /\ result \in status)
           /\ stacks' = [written EXCEPT ![s].state = "DONE"]
           /\ last' = [NoCall EXCEPT
                       !.op = "__exit__", !.stack = s, !.exc = exc,
                       !.fault = fault,
                       !.seen = IF self.parent = 0 THEN NoEntry
                                ELSE DictGet(written[self.parent].children, self.name),
                       !.raised = IF d.raised # NoExc THEN d.raised ELSE exc,
                       !.result = result, !.msg = msg,
                       !.dispatched = d.dispatched, !.calls = d.calls]
           /\ log' = log \o Received(d.calls)
    /\ UNCHANGED <<registered_items, now>>

\* mutant of __exit__: only a stack that reports writes its outcome to the
\* parent
__exit___ReportingOnly(s, exc, fault) ==
    /\ stacks[s].state = "ACTIVE"
    /\ LET self == stacks[s]
           info == _finish_info(self, exc)
           result == info[1]
           msg == info[2]
           written == IF self.parent # 0 /\ self.reporting_enabled
                      THEN [stacks EXCEPT ![self.parent].children =
                               DictSet(@, self.name, result, msg)]
                      ELSE stacks
           d == IF self.reporting_enabled
                THEN report_finish_event(registered_items, self.fullname, msg,
                                         result, self.post_files, fault)
                ELSE NoDispatch
       IN  /\ fault # 0 => (self.reporting_enabled /\ result \in status)
           /\ stacks' = [written EXCEPT ![s].state = "DONE"]
           /\ last' = [NoCall EXCEPT
                       !.op = "__exit__", !.stack = s, !.exc = exc,
                       !.fault = fault,
                       !.seen = IF self.parent = 0 THEN NoEntry
                                ELSE DictGet(written[self.parent].children, self.name),
                       !.raised = IF d.raised # NoExc THEN d.raised ELSE exc,
                       !.result = result, !.msg = msg,
                       !.dispatched = d.dispatched, !.calls = d.calls]
           /\ log' = log \o Received(d.calls)
    /\ UNCHANGED <<registered_items, now>>

\* ReportEventStack.__exit__, as the with-statement calls it when the body
\* returned (exc = NoExc) or unwound with exc.  __exit__ returns None, so
\* the with-statement re-raises exc unless __exit__ itself raised.
__exit__(s, exc, fault) ==
    /\ stacks[s].state = "ACTIVE"
    /\ LET self == stacks[s]
           info == _finish_info(self, exc)
           result == info[1]
           msg == info[2]
           written == IF self.parent # 0
                      THEN [stacks EXCEPT ![self.parent].children =
                               DictSet(@, self.name, result, msg)]
                      ELSE stacks
           d == IF self.reporting_enabled
                THEN report_finish_event(registered_items, self.fullname, msg,
                                         result, self.post_files, fault)
                ELSE NoDispatch
       IN  /\ fault # 0 => (self.reporting_enabled /\ result \in status)
           /\ stacks' = [written EXCEPT ![s].state = "DONE"]
           /\ last' = [NoCall EXCEPT
                       !.op = "__exit__", !.stack = s, !.exc = exc,
                       !.fault = fault,
                       !.seen = IF self.parent = 0 THEN NoEntry
                                ELSE DictGet(written[self.parent].children, self.name),
                       !.raised = IF d.raised # NoExc THEN d.raised ELSE exc,
                       !.result = result, !.msg = msg,
                       !.dispatched = d.dispatched, !.calls = d.calls]
           /\ log' = log \o Received(d.calls)
    /\ UNCHANGED <<registered_items, now>>

\* ------------------------------------------------------------------ Spec
\* with-statements over ReportEventStack objects that the run constructs,
\* with one handler registered
Init ==
    /\ registered_items = <<HandlerNames[1]>>
    /\ stacks = [s \in StackIds |-> NoStack]
    /\ last = NoCall
    /\ now = DefaultTimestamp
    /\ log = <<>>

Next ==
    \/ \E s \in StackIds, n \in Names, d \in Descriptions, m \in Messages,
          p \in 0..MaxStacks, re \in {None, "True", "False"},
          roe \in {"FAIL", "WARN", "BOGUS"} :
           Construct(s, n, d, m, p, re, roe, <<>>)
    \/ \E s \in StackIds, v \in {"FAIL", "BOGUS"} : SetResult(s, v)
    \/ \E s \in StackIds, f \in Faults : __enter__(s, f)
    \/ \E s \in StackIds, e \in BodyExceptions \cup {NoExc}, f \in Faults :
           __exit__(s, e, f)

Spec == Init /\ [][Next]_vars

\* ------------------------------------------------------------- SpecScope
\* with-statements over stacks that differ in their parent and in
\* reporting_enabled only, with one handler registered
InitScope ==
    /\ registered_items = <<HandlerNames[1]>>
    /\ stacks = [s \in StackIds |-> NoStack]
    /\ last = NoCall
    /\ now = DefaultTimestamp
    /\ log = <<>>

NextScope ==
    \/ \E s \in StackIds, p \in 0..MaxStacks, re \in {None, "True", "False"} :
           Construct(s, "a", "desc", None, p, re, "FAIL", <<>>)
    \/ \E s \in StackIds, v \in {"FAIL", "BOGUS"} : SetResult(s, v)
    \/ \E s \in StackIds, f \in Faults : __enter__(s, f)
    \/ \E s \in StackIds, e \in {NoExc, [type |-> "Exception", code |-> None]},
          f \in Faults :
           __exit__(s, e, f)

SpecScope == InitScope /\ [][NextScope]_vars

\* ---------------------------------------------------------- SpecDispatch
\* the registry and the dispatch functions called directly
InitDispatch ==
    /\ registered_items = <<>>
    /\ stacks = [s \in StackIds |-> NoStack]
    /\ last = NoCall
    /\ now = DefaultTimestamp
    /\ log = <<>>

NextDispatch ==
    \/ \E h \in AllHandlers : register_item(h)
    \/ \E h \in AllHandlers : unregister_item(h)
    \/ \E n \in Names, d \in Descriptions, f \in Faults :
           ReportStartEvent(n, d, f)
    \/ \E n \in Names, d \in Descriptions, r \in ResultValues, f \in Faults :
           ReportFinishEvent(n, d, r, f)

SpecDispatch == InitDispatch /\ [][NextDispatch]_vars

\* ------------------------------------------------------------ SpecRollup
\* The exit of a stack whose children have reported.  The inputs are drawn:
\* stack 2 is inside its with-statement and its children mapping holds what
\* earlier children left there, a placeholder (__enter__) or a recorded
\* result (__exit__), under up to MaxChildren names; stack 1 is its parent,
\* a root stack inside its own with-statement.  One handler is registered.
ChildEntries ==
    { [name |-> n, value |-> None, msg |-> None] : n \in ChildNames }
    \cup { [name |-> n, value |-> v, msg |-> "child"] :
               n \in ChildNames, v \in ResultValues }

ChildrenMaps ==
    { c \in UNION { [1..k -> ChildEntries] : k \in 0..MaxChildren } :
        \A i, j \in 1..Len(c) : c[i].name = c[j].name => i = j }

InitRollup ==
    /\ registered_items = <<HandlerNames[1]>>
    /\ last = NoCall
    /\ now = DefaultTimestamp
    /\ log = <<>>
    /\ \E m \in Messages, roe \in {"FAIL", "WARN", "BOGUS"}, re \in BOOLEAN,
          r \in status, c \in ChildrenMaps :
         stacks = [s \in StackIds |->
             IF s = 1
             THEN [NoStack EXCEPT
                     !.name = "a", !.description = "desc", !.fullname = "a",
                     !.result_on_exception = "FAIL", !._result = "SUCCESS",
                     !.reporting_enabled = TRUE, !.state = "ACTIVE",
                     !.children = DictSet(<<>>, "b", None, None)]
             ELSE IF s = 2
             THEN [NoStack EXCEPT
                     !.name = "b", !.description = "desc", !._message = m,
                     !.parent = 1, !.fullname = "a/b",
                     !.result_on_exception = roe, !._result = r,
                     !.reporting_enabled = re, !.state = "ACTIVE",
                     !.assigned = TRUE, !.children = c,
                     !.message_given = m, !.message_ever = (m # None)]
             ELSE NoStack]

NextRollup ==
    \E s \in StackIds, e \in BodyExceptions \cup {NoExc}, f \in Faults :
        __exit__(s, e, f)

SpecRollup == InitRollup /\ [][NextRollup]_vars

\* ----------------------------------------------------------- SpecNesting
\* scopes constructed inside one another, up to MaxDepth deep, and the
\* with-statements over them; nothing raises
NestNames == {"install", "partition", "format"}
NestIds == 1..MaxDepth

InitNesting ==
    /\ registered_items = <<HandlerNames[1]>>
    /\ stacks = [s \in NestIds |-> NoStack]
    /\ last = NoCall
    /\ now = DefaultTimestamp
    /\ log = <<>>

NextNesting ==
    \/ \E s \in NestIds, n \in NestNames, p \in 0..MaxDepth :
           Construct(s, n, "desc", None, p, None, "FAIL", <<>>)
    \/ \E s \in NestIds : __enter__(s, 0)
    \/ \E s \in NestIds : __exit__(s, NoExc, 0)

SpecNesting == InitNesting /\ [][NextNesting]_vars

\* ------------------------------------------------------------ SpecAssign
\* A parent and a child stack whose attributes the caller assigns before,
\* in and after their with-statements: the parent's name and fullname, the
\* child's description, message and result.
Renamed == "x"
Descriptions2 == {"desc", "desc2"}

InitAssign ==
    /\ registered_items = <<HandlerNames[1]>>
    /\ stacks = [s \in StackIds |-> NoStack]
    /\ last = NoCall
    /\ now = DefaultTimestamp
    /\ log = <<>>

NextAssign ==
    \/ Construct(1, "a", "desc", None, 0, None, "FAIL", <<>>)
    \/ \E m \in Messages :
           Construct(2, "b", "desc", m, 1, None, "FAIL", <<>>)
    \/ SetName(1, Renamed)
    \/ SetFullname(1, Renamed)
    \/ \E v \in Descriptions2 : SetDescription(2, v)
    \/ \E v \in Messages : SetMessage(2, v)
    \/ SetResult(2, "WARN")
    \/ GetMessage(2)
    \/ \E s \in {1, 2} : __enter__(s, 0)
    \/ \E s \in {1, 2}, e \in {NoExc, [type |-> "Exception", code |-> None]} :
           __exit__(s, e, 0)

SpecAssign == InitAssign /\ [][NextAssign]_vars

\* ------------------------------------------------------------- SpecClock
\* the dispatch functions and one with-statement, called while time passes
InitClock ==
    /\ registered_items = <<HandlerNames[1]>>
    /\ stacks = [s \in StackIds |-> NoStack]
    /\ last = NoCall
    /\ now = DefaultTimestamp
    /\ log = <<>>

NextClock ==
    \/ Tick
    \/ \E n \in Names, d \in Descriptions, f \in Faults :
           ReportStartEvent(n, d, f)
    \/ \E n \in Names, d \in Descriptions, r \in ResultValues, f \in Faults :
           ReportFinishEvent(n, d, r, f)
    \/ Construct(1, "a", "desc", None, 0, None, "FAIL", <<>>)
    \/ \E f \in Faults : __enter__(1, f)
    \/ \E e \in BodyExceptions \cup {NoExc}, f \in Faults : __exit__(1, e, f)

SpecClock == InitClock /\ [][NextClock]_vars

\* -------------------------------------------------------------- SpecDict
\* Events are serialised: events constructed directly, and the events that
\* the with-statement of a stack with post_files hands to the handlers.
Events ==
    { ReportingEvent(START_EVENT_TYPE, "a", d) : d \in Descriptions }
    \cup { FinishReportingEvent("a", d, r, pf).event :
               d \in Descriptions, r \in status, pf \in PostFiles }

InitDict ==
    /\ registered_items = <<HandlerNames[1]>>
    /\ stacks = [s \in StackIds |-> NoStack]
    /\ last = NoCall
    /\ now = DefaultTimestamp
    /\ log = <<>>

NextDict ==
    \/ \E e \in Events, fs \in FileSystems : AsDict(e, fs)
    \/ \E i \in 1..Len(last.dispatched), fs \in FileSystems :
           AsDict(last.dispatched[i], fs)
    \/ \E pf \in {<<>>, <<"/p">>, <<"/q">>} :
           Construct(1, "a", "desc", None, 0, None, "FAIL", pf)
    \/ __enter__(1, 0)
    \/ __exit__(1, NoExc, 0)

SpecDict == InitDict /\ [][NextDict]_vars

\* Serialisation of one finish event again and again while the files
\* change, and of the finish event of a stack that names a file.
FileEvents ==
    { FinishReportingEvent("a", "desc", "SUCCESS", pf).event :
          pf \in PostFiles }

InitFiles ==
    /\ registered_items = <<HandlerNames[1]>>
    /\ stacks = [s \in StackIds |-> NoStack]
    /\ last = NoCall
    /\ now = DefaultTimestamp
    /\ log = <<>>

NextFiles ==
    \/ \E e \in FileEvents, fs \in FileSystems : AsDict(e, fs)
    \/ \E fs \in FileSystems : AsDictAgain(fs)
    \/ \E i \in 1..Len(last.dispatched), fs \in FileSystems :
           AsDict(last.dispatched[i], fs)
    \/ Construct(1, "a", "desc", None, 0, None, "FAIL", <<"/p">>)
    \/ __enter__(1, 0)
    \/ __exit__(1, NoExc, 0)

SpecFiles == InitFiles /\ [][NextFiles]_vars

\* One parent and its children, whose names may coincide: the children are
\* made, entered and left, normally or by an exception, in any order, also
\* while the parent is not entered or has been left.
SiblingNames == {"b", "c"}
SiblingIds == 1..(MaxChildren + 1)

InitSiblings ==
    /\ registered_items = <<HandlerNames[1]>>
    /\ stacks = [s \in SiblingIds |-> NoStack]
    /\ last = NoCall
    /\ now = DefaultTimestamp
    /\ log = <<>>

NextSiblings ==
    \/ Construct(1, "a", "desc", None, 0, None, "FAIL", <<>>)
    \/ \E s \in SiblingIds, n \in SiblingNames :
           Construct(s, n, "desc", None, 1, None, "FAIL", <<>>)
    \/ SetResult(1, "WARN")
    \/ \E s \in SiblingIds : __enter__(s, 0)
    \/ \E s \in SiblingIds, e \in {NoExc, [type |-> "Exception", code |-> None]} :
           __exit__(s, e, 0)

SpecSiblings == InitSiblings /\ [][NextSiblings]_vars

\* Scopes used as nested with-statements, with a recording handler: a stack
\* is entered once, while its parent (if it has one) is ACTIVE, and left
\* when none of its children is ACTIVE.  Stack s has the s-th name, so
\* fullnames differ.
ScopeNames == <<"a", "b", "c", "d", "e">>

InitBracket ==
    /\ registered_items = <<HandlerNames[1], Recorder>>
    /\ stacks = [s \in NestIds |-> NoStack]
    /\ last = NoCall
    /\ now = DefaultTimestamp
    /\ log = <<>>

NextBracket ==
    \/ \E s \in NestIds, p \in 0..MaxDepth :
           Construct(s, ScopeNames[s], "desc", None, p, None, "FAIL", <<>>)
    \/ \E s \in NestIds :
           /\ stacks[s].state = "PENDING"
           /\ stacks[s].parent # 0 => stacks[stacks[s].parent].state = "ACTIVE"
           /\ __enter__(s, 0)
    \/ \E s \in NestIds, e \in {NoExc, [type |-> "Exception", code |-> None]} :
           /\ \A c \in NestIds :
                  stacks[c].parent = s => stacks[c].state # "ACTIVE"
           /\ __exit__(s, e, 0)

SpecBracket == InitBracket /\ [][NextBracket]_vars

\* A tree of properly nested scopes with a recording handler, as SpecBracket,
\* where stack 1 is the root, a child is made in the body of its parent,
\* the body may also set
\* the result to WARN, and only a stack without children is left by an
\* exception: every stack that has children exits normally.
InitTree ==
    /\ registered_items = <<Recorder>>
    /\ stacks = [s \in NestIds |-> NoStack]
    /\ last = NoCall
    /\ now = DefaultTimestamp
    /\ log = <<>>

NextTree ==
    \/ \E s \in NestIds, p \in 0..MaxDepth :
           /\ IF s = 1 THEN p = 0
              ELSE p \in NestIds /\ stacks[p].state = "ACTIVE"
           /\ Construct(s, ScopeNames[s], "desc", None, p, None, "FAIL", <<>>)
    \/ \E s \in NestIds :
           /\ stacks[s].state = "PENDING"
           /\ stacks[s].parent # 0 => stacks[stacks[s].parent].state = "ACTIVE"
           /\ __enter__(s, 0)
    \/ \E s \in NestIds :
           /\ stacks[s].state = "ACTIVE" /\ ~stacks[s].assigned
           /\ SetResult(s, "WARN")
    \/ \E s \in NestIds, e \in {NoExc, [type |-> "Exception", code |-> None]} :
           /\ \A c \in NestIds :
                  stacks[c].parent = s =>
                      (stacks[c].state # "ACTIVE" /\ e = NoExc)
           /\ __exit__(s, e, 0)

SpecTree == InitTree /\ [][NextTree]_vars

\* The normal exit of a stack whose children mapping is drawn in every
\* order, with nothing else varied.
InitOrder ==
    /\ registered_items = <<HandlerNames[1]>>
    /\ last = NoCall
    /\ now = DefaultTimestamp
    /\ log = <<>>
    /\ \E r \in status, c \in ChildrenMaps :
         stacks = [s \in StackIds |->
             IF s = 1
             THEN [NoStack EXCEPT
                     !.name = "a", !.description = "desc", !.fullname = "a",
                     !.result_on_exception = "FAIL", !._result = r,
                     !.reporting_enabled = TRUE, !.state = "ACTIVE",
                     !.assigned = TRUE, !.children = c]
             ELSE NoStack]

NextOrder == __exit__(1, NoExc, 0)

SpecOrder == InitOrder /\ [][NextOrder]_vars

\* A child "b" of the active root "a", inside its with-statement (the root
\* holds the placeholder entry), whose body unwinds with SystemExit.
InitExit ==
    /\ registered_items = <<HandlerNames[1]>>
    /\ last = NoCall
    /\ now = DefaultTimestamp
    /\ log = <<>>
    /\ \E r \in status, roe \in status, c \in ChildrenMaps :
         stacks = [s \in StackIds |->
             IF s = 1
             THEN [NoStack EXCEPT
                     !.name = "a", !.description = "desc", !.fullname = "a",
                     !.result_on_exception = "FAIL", !._result = "SUCCESS",
                     !.reporting_enabled = TRUE, !.state = "ACTIVE",
                     !.children = DictSet(<<>>, "b", None, None)]
             ELSE IF s = 2
             THEN [NoStack EXCEPT
                     !.name = "b", !.description = "desc", !.fullname = "a/b",
                     !.parent = 1,
                     !.result_on_exception = roe, !._result = r,
                     !.reporting_enabled = TRUE, !.state = "ACTIVE",
                     !.assigned = TRUE, !.children = c]
             ELSE NoStack]

NextExit == \E e \in SystemExits : __exit__(2, e, 0)

SpecExit == InitExit /\ [][NextExit]_vars

\* Two handlers are registered; a root and its children are constructed,
\* entered and left, and report_start_event and report_finish_event are also called directly,
\* with valid and invalid results.
InitEvents ==
    /\ registered_items = <<HandlerNames[1], HandlerNames[2]>>
    /\ stacks = [s \in StackIds |-> NoStack]
    /\ last = NoCall
    /\ now = DefaultTimestamp
    /\ log = <<>>

NextEvents ==
    \/ \E f \in Faults : ReportStartEvent("a", "desc", f)
    \/ \E r \in ResultValues, f \in Faults :
           ReportFinishEvent("a", "desc", r, f)
    \/ \E s \in StackIds, roe \in {"FAIL", "BOGUS"} :
           Construct(s, IF s = 1 THEN "a" ELSE "b", "desc", None,
                     IF s = 1 THEN 0 ELSE 1, None, roe, <<>>)
    \/ \E v \in {"WARN", "BOGUS"} : SetResult(1, v)
    \/ \E s \in StackIds, f \in Faults : __enter__(s, f)
    \/ \E s \in StackIds, f \in Faults,
          e \in {NoExc, [type |-> "Exception", code |-> None]} :
           __exit__(s, e, f)

SpecEvents == InitEvents /\ [][NextEvents]_vars

\* ------------------------------------------------------------------ claims
\* what the claims speak of, in the state right after a call
Exited == last.op = "__exit__"
Dispatching == last.op \in {"report_start_event", "report_finish_event"}
CleanExit(exc) == exc.type = "SystemExit" /\ exc.code = "0"
OwnMessage(s) ==
    IF stacks[s]._message # None THEN stacks[s]._message
    ELSE stacks[s].description
HasChild(s, v) ==
    \E i \in 1..Len(stacks[s].children) : stacks[s].children[i].value = v
CalledHandlers == [i \in 1..Len(last.calls) |-> last.calls[i].handler]

\* C1: leaving an entered stack that has reporting enabled, by any exit
\* path, dispatches exactly one finish event, named by the stack's fullname.
C1_FinishEventOnEveryExit ==
    (Exited /\ stacks[last.stack].reporting_enabled) =>
        /\ Len(last.dispatched) = 1
        /\ last.dispatched[1].event_type = FINISH_EVENT_TYPE
        /\ last.dispatched[1].name = stacks[last.stack].fullname

\* C2: on a normal exit, a child entry with result FAIL makes the outcome
\* (FAIL, own message), whatever the other entries, their order and the
\* stack's own result.
C2_FailChildWins ==
    (Exited /\ last.exc = NoExc /\ HasChild(last.stack, "FAIL")) =>
        /\ last.result = "FAIL"
        /\ last.msg = OwnMessage(last.stack)

C2_Witness ==
    /\ Exited /\ last.exc = NoExc
    /\ \E i, j \in 1..Len(stacks[last.stack].children) :
         /\ i < j
         /\ stacks[last.stack].children[i].value = "WARN"
         /\ stacks[last.stack].children[j].value = "FAIL"
    /\ stacks[last.stack]._result = "SUCCESS"
    /\ last.result = "FAIL"

\* C3: on a normal exit, a child entry with result WARN and none with FAIL
\* make the outcome (WARN, own message).
C3_WarnChildWins ==
    (/\ Exited /\ last.exc = NoExc
     /\ HasChild(last.stack, "WARN") /\ ~HasChild(last.stack, "FAIL")) =>
        /\ last.result = "WARN"
        /\ last.msg = OwnMessage(last.stack)

C3_Witness ==
    /\ Exited /\ last.exc = NoExc
    /\ HasChild(last.stack, "WARN") /\ ~HasChild(last.stack, "FAIL")
    /\ HasChild(last.stack, "SUCCESS")
    /\ stacks[last.stack]._result = "FAIL"
    /\ last.result = "WARN"

\* C4: on a normal exit with no child entry FAIL or WARN the outcome is (own
\* result, own message); if the body never assigned the result, this is
\* SUCCESS with the message if one is set, else the description.
C4_OwnResultOtherwise ==
    (/\ Exited /\ last.exc = NoExc
     /\ ~HasChild(last.stack, "FAIL") /\ ~HasChild(last.stack, "WARN")) =>
        /\ last.result = stacks[last.stack]._result
        /\ last.msg = OwnMessage(last.stack)
        /\ ~stacks[last.stack].assigned => last.result = "SUCCESS"

C4_Witness ==
    /\ Exited /\ last.exc = NoExc
    /\ stacks[last.stack].children = <<>>
    /\ ~stacks[last.stack].assigned
    /\ stacks[last.stack]._message = "msg"
    /\ last.result = "SUCCESS" /\ last.msg = "msg"

\* C5: when the body raised anything but SystemExit with code 0, the outcome
\* written to the parent and carried by the finish event is
\* (result_on_exception, own message), whatever the own result and the
\* children's results.
C5_ExceptionUsesResultOnException ==
    (Exited /\ last.exc # NoExc /\ ~CleanExit(last.exc)) =>
        LET self == stacks[last.stack]
        IN  /\ last.result = self.result_on_exception
            /\ last.msg = OwnMessage(last.stack)
            /\ self.parent # 0 =>
                 \E i \in 1..Len(stacks[self.parent].children) :
                    stacks[self.parent].children[i] =
                        [name |-> self.name,
                         value |-> self.result_on_exception,
                         msg |-> OwnMessage(last.stack)]
            /\ \A i \in 1..Len(last.dispatched) :
                 /\ last.dispatched[i].result = self.result_on_exception
                 /\ last.dispatched[i].description = OwnMessage(last.stack)

C5_Witness ==
    /\ Exited /\ last.exc = [type |-> "Exception", code |-> None]
    /\ HasChild(last.stack, "FAIL")
    /\ stacks[last.stack].result_on_exception = "WARN"
    /\ stacks[last.stack].parent # 0
    /\ last.result = "WARN"
    /\ Len(last.dispatched) = 1

\* C6: an exception of the body is never suppressed: it is the exception
\* that leaves the with-statement, and it leaves after the finish event was
\* dispatched, also when a handler faults or the finish event is invalid.
C6_BodyExceptionPropagates ==
    (Exited /\ last.exc # NoExc) =>
        /\ last.raised = last.exc
        /\ stacks[last.stack].reporting_enabled => Len(last.dispatched) = 1

\* C7: when the body unwinds with SystemExit code 0 the outcome is that of
\* an exception-free exit: FAIL child, else WARN child, else own result;
\* result_on_exception is not used.
C7_ExitZeroIsClean ==
    (Exited /\ CleanExit(last.exc)) =>
        /\ last.result =
             IF HasChild(last.stack, "FAIL") THEN "FAIL"
             ELSE IF HasChild(last.stack, "WARN") THEN "WARN"
             ELSE stacks[last.stack]._result
        /\ last.msg = OwnMessage(last.stack)

C7_Witness ==
    /\ Exited /\ CleanExit(last.exc)
    /\ stacks[last.stack].result_on_exception = "FAIL"
    /\ HasChild(last.stack, "WARN") /\ ~HasChild(last.stack, "FAIL")
    /\ last.result = "WARN"

C9_HandlerFaultAborts ==
    (Dispatching /\ last.fault # 0) =>
        /\ last.raised = HandlerFault
        /\ CalledHandlers = SubSeq(registered_items, 1, last.fault)
        /\ \A i \in 1..Len(last.calls) : last.calls[i].event = last.dispatched[1]

C9_Witness ==
    /\ Dispatching /\ last.fault = 1
    /\ Len(registered_items) = 2
    /\ CalledHandlers = <<registered_items[1]>>
    /\ last.raised = HandlerFault

\* C10: report_finish_event with a result that is not a status raises the
\* validation error and calls no handler.
C10_InvalidResultNotDispatched ==
    (last.op = "report_finish_event" /\ last.result \notin status) =>
        /\ last.raised = ValueError
        /\ last.dispatched = <<>>
        /\ last.calls = <<>>

C10_Witness ==
    /\ last.op = "report_finish_event" /\ last.result = "BOGUS"
    /\ Len(registered_items) = 2
    /\ last.raised = ValueError /\ last.calls = <<>>

\* the stacks that have been constructed
Constructed == {s \in DOMAIN stacks : stacks[s].state # "NONE"}

\* C11: constructing a ReportEventStack with a result_on_exception that is
\* not a status fails at construction: the constructor raises the validation
\* error and no object with such a result_on_exception exists, so none can
\* dispatch a start event or write to its parent's children mapping.
C11_InvalidResultOnExceptionRejected ==
    /\ (last.op = "__init__"
          /\ stacks[last.stack].result_on_exception \notin status) =>
            last.raised = ValueError
    /\ \A s \in Constructed : stacks[s].result_on_exception \in status

\* C12: the result of every stack is a status in every state; assigning a
\* status to .result stores it, assigning anything else raises the
\* validation error and leaves the result as it was.
C12_ResultAlwaysValid ==
    /\ [](\A s \in Constructed : stacks[s]._result \in status)
    /\ [][last'.op = "result" =>
            IF last'.arg \in status
            THEN /\ last'.raised = NoExc
                 /\ stacks'[last'.stack]._result = last'.arg
            ELSE /\ last'.raised = ValueError
                 /\ stacks'[last'.stack]._result = stacks[last'.stack]._result
         ]_vars

C12_Witness ==
    /\ last.op = "result" /\ last.arg = "BOGUS"
    /\ last.raised = ValueError
    /\ stacks[last.stack]._result = "FAIL"

\* the names from the root down to s, joined by "/"
RECURSIVE JoinedNames(_)
JoinedNames(s) ==
    IF stacks[s].parent = 0 THEN stacks[s].name
    ELSE JoinedNames(stacks[s].parent) \o "/" \o stacks[s].name

C14_FullnameFixed ==
    /\ [][\A s \in Constructed :
             stacks'[s].fullname # stacks[s].fullname =>
                 (last'.op = "set_fullname" /\ last'.stack = s)]_vars
    /\ [](last.op \in {"__enter__", "__exit__"} =>
             \A i \in 1..Len(last.dispatched) :
                 last.dispatched[i].name = stacks[last.stack].fullname)

C14_Witness ==
    /\ Exited /\ last.stack = 2
    /\ stacks[1].name = Renamed /\ stacks[1].fullname = Renamed
    /\ Len(last.dispatched) = 1
    /\ last.dispatched[1].name = "a/b"

\* the message a caller reads, or the text __exit__ reports
ReadMessage == last.op \in {"get_message", "__exit__"}

\* C15, as claimed: the message of a scope is its current description as
\* long as no message was ever given to it, and once one was given, a change
\* of the description no longer changes the message.
C15_MessageIgnoresDescriptionOnceAssigned ==
    /\ []((ReadMessage /\ ~stacks[last.stack].message_ever) =>
             last.msg = stacks[last.stack].description)
    /\ [][\A s \in Constructed :
             (stacks[s].message_ever /\ last'.op = "set_description") =>
                 message(stacks'[s]) = message(stacks[s])]_vars

\* C15, amended: the message of a scope is its current description while
\* the message last given to it (at construction or by assignment) is None,
\* and is the message last given otherwise, whatever the description.
C15_MessageFollowsDescriptionWhileNone ==
    ReadMessage =>
        last.msg = IF stacks[last.stack].message_given # None
                   THEN stacks[last.stack].message_given
                   ELSE stacks[last.stack].description

C15_Witness ==
    /\ Exited /\ last.stack = 2
    /\ stacks[2].message_given = None /\ stacks[2].message_ever
    /\ stacks[2].description = "desc2"
    /\ last.msg = "desc2"
    /\ Len(last.dispatched) = 1 /\ last.dispatched[1].description = "desc2"

\* C16: an event constructed without an explicit timestamp carries the time
\* of its construction: every event a call hands to report_event has the
\* value of the clock during that call as its timestamp, so events of calls
\* made at different times carry different timestamps.
C16_TimestampIsConstructionTime ==
    \A i \in 1..Len(last.dispatched) : last.dispatched[i].timestamp = now

\* C17: a stack constructed without reporting_enabled has the value its
\* parent has at that moment, or TRUE if it has no parent; a value passed
\* explicitly is used as given, whatever the parent's.
C17_ReportingEnabledInherited ==
    last.op = "__init__" =>
        LET self == stacks[last.stack]
        IN  /\ (last.arg = None /\ self.parent = 0) => self.reporting_enabled
            /\ (last.arg = None /\ self.parent # 0) =>
                  self.reporting_enabled = stacks[self.parent].reporting_enabled
            /\ last.arg = "True" => self.reporting_enabled
            /\ last.arg = "False" => ~self.reporting_enabled

C17_Witness ==
    /\ last.op = "__init__" /\ last.arg = None
    /\ stacks[last.stack].parent # 0
    /\ ~stacks[stacks[last.stack].parent].reporting_enabled
    /\ ~stacks[last.stack].reporting_enabled

\* C18: a stack whose reporting_enabled is false dispatches nothing: neither
\* entering it nor leaving it, normally or by an exception, hands an event
\* to report_event or calls a handler's publish_event.
C18_DisabledDispatchesNothing ==
    (last.op \in {"__enter__", "__exit__"}
      /\ ~stacks[last.stack].reporting_enabled) =>
        /\ last.dispatched = <<>>
        /\ last.calls = <<>>

C18_Witness ==
    /\ Exited /\ last.exc = [type |-> "Exception", code |-> None]
    /\ ~stacks[last.stack].reporting_enabled
    /\ registered_items # <<>>
    /\ last.calls = <<>>

\* C19, as claimed: a stack is single-use.  Once DONE it stays DONE, so a
\* stack that has been left is not entered and dispatches no start event
\* again.
C19_SingleUse ==
    [][\A s \in Constructed :
          stacks[s].state = "DONE" =>
              /\ stacks'[s].state = "DONE"
              /\ ~(last'.op = "__enter__" /\ last'.stack = s)]_vars

\* C19, amended: a stack moves from PENDING to ACTIVE to DONE in a
\* with-statement and can be entered again when DONE.  Every __enter__ hands
\* at most one event to report_event, a start event, and every __exit__ at
\* most one, a finish event; entering a DONE stack makes it ACTIVE again with
\* its result reset to SUCCESS and, if it reports, dispatches a start event
\* once more.
C19_OnePairPerUse ==
    /\ last.op = "__enter__" =>
          /\ Len(last.dispatched) <= 1
          /\ \A i \in 1..Len(last.dispatched) :
                last.dispatched[i].event_type = START_EVENT_TYPE
          /\ last.arg \in {"PENDING", "DONE"}
          /\ stacks[last.stack]._result = "SUCCESS"
          /\ last.raised = NoExc => stacks[last.stack].state = "ACTIVE"
          /\ stacks[last.stack].reporting_enabled => Len(last.dispatched) = 1
    /\ last.op = "__exit__" =>
          /\ Len(last.dispatched) <= 1
          /\ \A i \in 1..Len(last.dispatched) :
                last.dispatched[i].event_type = FINISH_EVENT_TYPE
          /\ stacks[last.stack].state = "DONE"

C19_Witness ==
    /\ last.op = "__enter__" /\ last.arg = "DONE"
    /\ stacks[last.stack].state = "ACTIVE"
    /\ stacks[last.stack]._result = "SUCCESS"
    /\ Len(last.dispatched) = 1

\* the keys of the dict form of every event
BaseKeys == {"name", "description", "event_type", "origin", "timestamp"}

\* C20: the dict form of a finish event has the keys name, description,
\* event_type, origin, timestamp and result, and the key files if and only
\* if its post_files is not empty; the dict form of any other event has the
\* first five keys and no other.
C20_DictKeys ==
    (last.op = "as_dict" /\ last.raised = NoExc) =>
        DOMAIN last.data =
            IF last.event.cls = "FinishReportingEvent"
            THEN BaseKeys \cup {"result"}
                   \cup (IF Len(last.event.post_files) > 0
                         THEN {"files"} ELSE {})
            ELSE BaseKeys

C20_Witness ==
    /\ last.op = "as_dict"
    /\ last.event.cls = "FinishReportingEvent"
    /\ last.event.name = "a"
    /\ Len(last.event.post_files) = 2
    /\ last.raised = NoExc
    /\ DOMAIN last.data = BaseKeys \cup {"result", "files"}


\* a call of as_dict on a finish event that names files
SerialisedFiles ==
    /\ last.op = "as_dict"
    /\ last.event.cls = "FinishReportingEvent"
    /\ last.event.post_files # <<>>

\* what the entry of a path holds, given the files during the call
ContentOf(fs, path) ==
    IF fs[path] \in Contents THEN b64encode(fs[path]) ELSE None

\* C21: a path of post_files that is no regular file when as_dict is called
\* does not make the call fail: when no other path is an unreadable file,
\* the call returns, the files list has one entry per path in the order of
\* post_files, and the entry of a missing path has content None and
\* encoding "base64".
C21_MissingFileIsNull ==
    (/\ SerialisedFiles
     /\ \A i \in 1..Len(last.event.post_files) :
            last.fs[last.event.post_files[i]] # Unreadable) =>
        /\ last.raised = NoExc
        /\ Len(last.data.files) = Len(last.event.post_files)
        /\ \A i \in 1..Len(last.event.post_files) :
               /\ last.data.files[i].path = last.event.post_files[i]
               /\ last.data.files[i].encoding = "base64"
               /\ last.fs[last.event.post_files[i]] = NoFile =>
                      last.data.files[i].content = None

C21_Witness ==
    /\ SerialisedFiles
    /\ last.event.post_files = <<"/q", "/p">>
    /\ last.fs["/q"] = NoFile
    /\ last.fs["/p"] = "a"
    /\ last.raised = NoExc
    /\ last.data.files[1] =
           [path |-> "/q", content |-> None, encoding |-> "base64"]
    /\ last.data.files[2].content = "YQ=="

\* C22: every call of as_dict reads the files anew: the content of each
\* entry is that of the file as it is during this call, also when the same
\* event was serialised before with other files in place, and whatever the
\* files were when the event or its stack was made or entered.
C22_FilesReadAtEachCall ==
    (SerialisedFiles /\ last.raised = NoExc) =>
        /\ Len(last.data.files) = Len(last.event.post_files)
        /\ \A i \in 1..Len(last.event.post_files) :
               last.data.files[i].content =
                   ContentOf(last.fs, last.event.post_files[i])

C22_Witness ==
    /\ SerialisedFiles
    /\ last.event.post_files = <<"/p", "/q">>
    /\ last.again
    /\ last.prev.fs = [p \in Paths |-> IF p = "/p" THEN "a" ELSE NoFile]
    /\ last.prev.raised = NoExc
    /\ last.prev.data.files[1].content = "YQ=="
    /\ last.prev.data.files[2].content = None
    /\ last.fs = [p \in Paths |-> IF p = "/p" THEN "b" ELSE "a"]
    /\ last.raised = NoExc
    /\ last.data.files[1].content = "Yg=="
    /\ last.data.files[2].content = "YQ=="


\* C23: __enter__ sets the result to SUCCESS whatever the stack held, so a
\* result assigned before the with-statement, or left from an earlier use,
\* is not the outcome of the exit: a normal exit with no child entry FAIL or
\* WARN and no assignment in the body reports SUCCESS.
C23_EntryResetsResult ==
    /\ last.op = "__enter__" =>
          /\ stacks[last.stack]._result = "SUCCESS"
          /\ ~stacks[last.stack].assigned
    /\ (/\ Exited /\ last.exc = NoExc
        /\ ~stacks[last.stack].assigned
        /\ ~HasChild(last.stack, "FAIL") /\ ~HasChild(last.stack, "WARN")) =>
          /\ last.result = "SUCCESS"
          /\ \A i \in 1..Len(last.dispatched) :
                last.dispatched[i].result = "SUCCESS"

C23_Witness ==
    /\ last.op = "__enter__" /\ last.arg = "PENDING"
    /\ last.found = "FAIL"
    /\ stacks[last.stack].state = "ACTIVE"
    /\ stacks[last.stack]._result = "SUCCESS"


\* stacks[p].children[n]
ChildEntry(p, n) == DictGet(stacks[p].children, n)

\* the other stacks made with the parent and the name of s
Namesakes(s) ==
    {t \in Constructed \ {s} :
        /\ stacks[t].parent = stacks[s].parent
        /\ stacks[t].name = stacks[s].name}

C25_ParentWrittenBeforeDispatch ==
    (Exited /\ stacks[last.stack].parent # 0) =>
        /\ last.seen = <<last.result, last.msg>>
        /\ ChildEntry(stacks[last.stack].parent, stacks[last.stack].name) =
               <<last.result, last.msg>>
        /\ \A i \in 1..Len(last.dispatched) :
               /\ last.dispatched[i].result = last.result
               /\ last.dispatched[i].description = last.msg

C25_Witness ==
    /\ Exited /\ last.stack = 2 /\ stacks[2].parent = 1
    /\ last.fault = 1 /\ last.raised = HandlerFault
    /\ last.exc = NoExc
    /\ last.result = "WARN"
    /\ Len(last.dispatched) = 1
    /\ ChildEntry(1, "b") = <<"WARN", "msg">>

\* C26: __enter__ dispatches the start event before it registers the
\* placeholder: the handlers are called with the parent's children as they
\* were, and when the dispatch raises, no stack's children changes, the
\* stack is not entered (so its body does not run and it is not left), and
\* the call has dispatched nothing but the start event.
C26_StartBeforePlaceholder ==
    [][last'.op = "__enter__" =>
          LET s == last'.stack
              p == stacks[s].parent
          IN  /\ p # 0 =>
                    last'.seen = DictGet(stacks[p].children, stacks[s].name)
              /\ last'.raised # NoExc =>
                    /\ \A t \in DOMAIN stacks :
                          stacks'[t].children = stacks[t].children
                    /\ stacks'[s].state = last'.arg
                    /\ stacks'[s].state # "ACTIVE"
                    /\ \A i \in 1..Len(last'.dispatched) :
                          last'.dispatched[i].event_type = START_EVENT_TYPE]_vars

C26_Witness ==
    /\ last.op = "__enter__" /\ last.raised = HandlerFault
    /\ last.fault = 1 /\ Len(last.calls) = 1
    /\ stacks[last.stack].parent # 0
    /\ stacks[last.stack].state = "PENDING"
    /\ last.seen = NoEntry
    /\ ChildEntry(stacks[last.stack].parent, stacks[last.stack].name) = NoEntry


\* where in the log the events of one type and name stand
LogIndex(type, name) ==
    {i \in 1..Len(log) : log[i].event_type = type /\ log[i].name = name}

\* C27: with scopes nested properly and reporting enabled, the events a
\* handler is given are well bracketed: every entered stack has one start
\* event and, once left, one finish event after it; every event of a child
\* stands after its parent's start event and before its parent's finish
\* event, and by then the child's own finish event has been given.
C27_WellBracketed ==
    \A s \in Constructed :
        LET fn == stacks[s].fullname
            starts == LogIndex(START_EVENT_TYPE, fn)
            finishes == LogIndex(FINISH_EVENT_TYPE, fn)
            p == stacks[s].parent
        IN  /\ Cardinality(starts) =
                   IF stacks[s].state \in {"ACTIVE", "DONE"} THEN 1 ELSE 0
            /\ Cardinality(finishes) =
                   IF stacks[s].state = "DONE" THEN 1 ELSE 0
            /\ \A i \in finishes : \E j \in starts : j < i
            /\ p # 0 =>
                  LET pstarts == LogIndex(START_EVENT_TYPE, stacks[p].fullname)
                      pfinishes == LogIndex(FINISH_EVENT_TYPE, stacks[p].fullname)
                  IN  /\ \A i \in starts \cup finishes :
                             /\ \E j \in pstarts : j < i
                             /\ \A k \in pfinishes : i < k
                      /\ (pfinishes # {} /\ starts # {}) => finishes # {}

C27_Witness ==
    /\ Len(log) = 6
    /\ log[1].event_type = START_EVENT_TYPE /\ log[1].name = "a"
    /\ log[2].event_type = START_EVENT_TYPE /\ log[2].name = "a/b"
    /\ log[3].event_type = START_EVENT_TYPE /\ log[3].name = "a/c"
    /\ log[4].event_type = FINISH_EVENT_TYPE /\ log[4].name = "a/b"
    /\ log[5].event_type = FINISH_EVENT_TYPE /\ log[5].name = "a/c"
    /\ log[6].event_type = FINISH_EVENT_TYPE /\ log[6].name = "a"


\* the results of the finish events that the handlers were given for s
Reported(s) ==
    {log[i].result : i \in LogIndex(FINISH_EVENT_TYPE, stacks[s].fullname)}

\* C28: in a tree of properly nested scopes with distinct names whose
\* ancestors all exit normally, a stack that reported FAIL makes every
\* ancestor that has exited report FAIL, and one that reported WARN makes
\* every such ancestor report WARN or FAIL.
C28_FailurePropagates ==
    \A s, a \in Constructed :
        (IsAncestorOf(a, s) /\ stacks[a].state = "DONE") =>
            /\ "FAIL" \in Reported(s) => Reported(a) = {"FAIL"}
            /\ "WARN" \in Reported(s) => Reported(a) \in {{"WARN"}, {"FAIL"}}

C28_Witness ==
    /\ \A s \in 1..3 : stacks[s].state = "DONE"
    /\ stacks[3].parent = 2 /\ stacks[2].parent = 1
    /\ stacks[3]._result = "SUCCESS" /\ Reported(3) = {"FAIL"}
    /\ stacks[2]._result = "WARN" /\ Reported(2) = {"FAIL"}
    /\ stacks[1]._result = "SUCCESS" /\ Reported(1) = {"FAIL"}


\* C29: a call of __exit__ changes, besides the fields of the stack itself,
\* only parent.children[name] of its parent: its own result and children,
\* the other fields and entries of the parent, every other stack and the
\* registry stay as they are, and the only event it dispatches is the
\* stack's own finish event.
C29_ExitFrame ==
    [][last'.op = "__exit__" =>
          LET s == last'.stack
              p == stacks[s].parent
          IN  /\ stacks'[s] = [stacks[s] EXCEPT !.state = stacks'[s].state]
              /\ \A t \in DOMAIN stacks \ {s, p} : stacks'[t] = stacks[t]
              /\ p # 0 =>
                    /\ stacks'[p] =
                           [stacks[p] EXCEPT !.children = stacks'[p].children]
                    /\ \A n \in NestNames \ {stacks[s].name} :
                           DictGet(stacks'[p].children, n) =
                               DictGet(stacks[p].children, n)
              /\ registered_items' = registered_items
              /\ Len(last'.dispatched) <= 1
              /\ \A i \in 1..Len(last'.dispatched) :
                    /\ last'.dispatched[i].event_type = FINISH_EVENT_TYPE
                    /\ last'.dispatched[i].name = stacks[s].fullname]_vars

C29_Witness ==
    /\ Exited /\ last.stack = 3
    /\ stacks[3].parent = 2 /\ stacks[2].parent = 1
    /\ stacks[3].name # stacks[2].name
    /\ stacks[2].state = "ACTIVE" /\ stacks[1].state = "ACTIVE"
    /\ ChildEntry(2, stacks[3].name) = <<"SUCCESS", "desc">>
    /\ ChildEntry(1, stacks[2].name) = <<None, None>>
    /\ ChildEntry(1, stacks[3].name) = NoEntry
    /\ Len(last.dispatched) = 1


\* C30: parent.children[n] is what the latest __enter__ (the placeholder) or
\* __exit__ (the outcome) of a child named n wrote, whichever child it was,
\* and no other call changes it; a parent that exits normally rolls up the
\* entries as they are then, so a FAIL that has been overwritten does not
\* count.
C30_LatestWriteWins ==
    [][/\ \A p \in DOMAIN stacks, n \in SiblingNames :
             DictGet(stacks'[p].children, n) =
                 IF /\ last'.op \in {"__enter__", "__exit__"}
                    /\ stacks[last'.stack].parent = p
                    /\ stacks[last'.stack].name = n
                    /\ last'.op = "__enter__" => last'.raised = NoExc
                 THEN IF last'.op = "__enter__" THEN <<None, None>>
                      ELSE <<last'.result, last'.msg>>
                 ELSE DictGet(stacks[p].children, n)
       /\ (last'.op = "__exit__" /\ last'.exc = NoExc) =>
             last'.result =
                 IF HasChild(last'.stack, "FAIL") THEN "FAIL"
                 ELSE IF HasChild(last'.stack, "WARN") THEN "WARN"
                 ELSE stacks[last'.stack]._result]_vars

C30_Witness ==
    /\ last.op = "__enter__" /\ last.arg = "PENDING"
    /\ stacks[last.stack].parent = 1
    /\ \E t \in Namesakes(last.stack) : stacks[t].state = "DONE"
    /\ last.seen = <<"FAIL", "desc">>
    /\ ChildEntry(1, stacks[last.stack].name) = <<None, None>>
    /\ ~HasChild(1, "FAIL")


\* the results recorded in a children mapping
ValuesOf(d) == {d[i].value : i \in 1..Len(d)}

\* C31: on a normal exit the outcome depends on the set of results recorded
\* by the children (which have distinct names), not on the order in which
\* they came to stand in the mapping: any children mapping with the same
\* set of results gives the same outcome.
C31_RollupOrderIndependent ==
    (Exited /\ last.exc = NoExc) =>
        \A d \in ChildrenMaps :
            ValuesOf(d) = ValuesOf(stacks[last.stack].children) =>
                _childrens_finish_info(
                    [stacks[last.stack] EXCEPT !.children = d]) =
                        <<last.result, last.msg>>

C31_Witness ==
    /\ Exited /\ last.exc = NoExc /\ last.stack = 1
    /\ Len(stacks[1].children) = 2
    /\ stacks[1].children[1].value = "WARN"
    /\ stacks[1].children[2].value = "FAIL"
    /\ stacks[1].children[1].name = "c"
    /\ stacks[1]._result = "WARN"
    /\ last.result = "FAIL"


\* C32: a child with reporting disabled dispatches nothing but still writes
\* to its parent, the placeholder on entry and its outcome on exit, and a
\* reporting parent that exits normally with such an entry FAIL (or WARN and
\* none FAIL) carries that result in its finish event.
C32_SilentChildRollsUp ==
    /\ \A s \in Constructed :
          (/\ last.stack = s /\ stacks[s].parent # 0
           /\ ~stacks[s].reporting_enabled) =>
              /\ (last.op = "__enter__" /\ last.raised = NoExc) =>
                    /\ last.dispatched = <<>>
                    /\ ChildEntry(stacks[s].parent, stacks[s].name) =
                           <<None, None>>
              /\ Exited =>
                    /\ last.dispatched = <<>>
                    /\ ChildEntry(stacks[s].parent, stacks[s].name) =
                           <<last.result, last.msg>>
    /\ (/\ Exited /\ last.exc = NoExc /\ last.fault = 0
        /\ stacks[last.stack].reporting_enabled) =>
          /\ HasChild(last.stack, "FAIL") =>
                (Len(last.dispatched) = 1 /\ last.dispatched[1].result = "FAIL")
          /\ (HasChild(last.stack, "WARN") /\ ~HasChild(last.stack, "FAIL")) =>
                (Len(last.dispatched) = 1 /\ last.dispatched[1].result = "WARN")

C32_Witness ==
    /\ Exited /\ last.stack = 1 /\ last.exc = NoExc
    /\ stacks[1].reporting_enabled /\ stacks[1]._result = "SUCCESS"
    /\ stacks[2].parent = 1 /\ ~stacks[2].reporting_enabled
    /\ stacks[2].state = "DONE"
    /\ ChildEntry(1, stacks[2].name) = <<"FAIL", "desc">>
    /\ Len(last.dispatched) = 1
    /\ last.dispatched[1].result = "FAIL"


\* C33: a stack whose body set its own result to FAIL, with a child entry
\* WARN and none FAIL, reports WARN on a normal exit: the children's WARN
\* replaces the stack's own, more severe, result.
C33_ChildWarnOverridesOwnFail ==
    (/\ Exited /\ last.exc = NoExc
     /\ stacks[last.stack].assigned /\ stacks[last.stack]._result = "FAIL"
     /\ HasChild(last.stack, "WARN") /\ ~HasChild(last.stack, "FAIL")) =>
        /\ last.result = "WARN"
        /\ \A i \in 1..Len(last.dispatched) :
               last.dispatched[i].result = "WARN"

C33_Witness ==
    /\ Exited /\ last.exc = NoExc /\ last.stack = 2
    /\ stacks[2].assigned /\ stacks[2]._result = "FAIL"
    /\ ValuesOf(stacks[2].children) = {"WARN"}
    /\ last.result = "WARN"
    /\ Len(last.dispatched) = 1
    /\ last.dispatched[1].result = "WARN"
    /\ ChildEntry(1, "b") = <<"WARN", last.msg>>

\* C34: a body that unwinds with SystemExit whose code is None (sys.exit()
\* without argument) or anything that does not compare equal to 0 (a
\* non-zero integer, a string) is reported as any other exception: the
\* finish event and the entry written to the parent carry
\* result_on_exception and the own message, whatever the own result and the
\* children recorded.
C34_NonZeroExitIsException ==
    (/\ Exited /\ last.exc.type = "SystemExit"
     /\ last.exc.code \in {None, "1", "'0'"}) =>
        LET self == stacks[last.stack]
        IN  /\ last.result = self.result_on_exception
            /\ last.msg = OwnMessage(last.stack)
            /\ last.raised = last.exc
            /\ self.reporting_enabled =>
                  /\ Len(last.dispatched) = 1
                  /\ last.dispatched[1].result = self.result_on_exception
            /\ self.parent # 0 =>
                  ChildEntry(self.parent, self.name) =
                      <<self.result_on_exception, OwnMessage(last.stack)>>

C34_Witness ==
    /\ Exited /\ last.stack = 2
    /\ last.exc = [type |-> "SystemExit", code |-> None]
    /\ stacks[2].result_on_exception = "WARN"
    /\ stacks[2]._result = "SUCCESS"
    /\ HasChild(2, "FAIL")
    /\ last.result = "WARN"
    /\ Len(last.dispatched) = 1 /\ last.dispatched[1].result = "WARN"
    /\ ChildEntry(1, "b") = <<"WARN", "desc">>
\* C35: __enter__ leaves the children mapping of the stack it enters as it
\* was, so what children recorded during an earlier with-statement over the
\* same object is still there; entry resets the own result to SUCCESS, and
\* a normal exit of a stack that holds a FAIL entry reports FAIL whatever
\* the own result is.
C35_EntryKeepsChildren ==
    [][ /\ last'.op = "__enter__" =>
            /\ stacks'[last'.stack].children = stacks[last'.stack].children
            /\ stacks'[last'.stack]._result = "SUCCESS"
        /\ (/\ last'.op = "__exit__" /\ last'.exc = NoExc
            /\ last.op = "__enter__" /\ last.stack = last'.stack
            /\ last.arg = "DONE"
            /\ HasChild(last.stack, "FAIL")) =>
               /\ stacks[last.stack]._result = "SUCCESS"
               /\ last'.result = "FAIL"
               /\ Len(last'.dispatched) = 1
               /\ last'.dispatched[1].result = "FAIL" ]_vars

\* a stack that was used before is entered again: the FAIL entry of the
\* earlier use is still in its children mapping, its own WARN is reset
C35_Witness ==
    /\ last.op = "__enter__" /\ last.arg = "DONE" /\ last.stack = 1
    /\ last.raised = NoExc
    /\ last.found = "WARN"
    /\ stacks[1]._result = "SUCCESS"
    /\ stacks[1].state = "ACTIVE"
    /\ HasChild(1, "FAIL")
\* C36: every event a handler is given by report_finish_event, called
\* directly or by the exit of a with-statement, is a FinishReportingEvent of
\* event_type "finish" whose result is SUCCESS, WARN or FAIL; every event a
\* handler is given by the entry of a with-statement has event_type "start".
C36_HandlersSeeValidEvents ==
    /\ last.op \in {"__exit__", "report_finish_event"} =>
          \A i \in 1..Len(last.calls) :
             /\ last.calls[i].event.cls = "FinishReportingEvent"
             /\ last.calls[i].event.event_type = "finish"
             /\ last.calls[i].event.result \in {"SUCCESS", "WARN", "FAIL"}
    /\ last.op = "__enter__" =>
          \A i \in 1..Len(last.calls) :
             last.calls[i].event.event_type = "start"

\* the body of a child raised: both handlers are given its finish event
C36_Witness ==
    /\ Exited /\ last.stack = 2 /\ stacks[2].parent = 1
    /\ last.exc = [type |-> "Exception", code |-> None]
    /\ Len(last.calls) = 2
    /\ last.calls[1].handler = "A" /\ last.calls[2].handler = "B"
    /\ \A i \in 1..2 :
          /\ last.calls[i].event.event_type = "finish"
          /\ last.calls[i].event.result = "FAIL"
          /\ last.calls[i].event.name = "a/b"
\* C37: every entry of the children mapping of every stack is the
\* placeholder (None, None) or a pair whose result is SUCCESS, WARN or FAIL.
C37_ChildrenEntriesValid ==
    \A s \in DOMAIN stacks :
       \A i \in 1..Len(stacks[s].children) :
          LET entry == stacks[s].children[i]
          IN  \/ entry.value = None /\ entry.msg = None
              \/ entry.value \in {"SUCCESS", "WARN", "FAIL"}
====
